---------------------------- MODULE Spec2Model ----------------------------
(***************************************************************************)
(* A model of the two batch tools of the repository:                       *)
(*   tools/mirror_webflow.py   the Asset Localizer                         *)
(*   tools/remove_branding.py  the Branding Rewriter                       *)
(* Text is modelled character by character: a document, a URL or a file    *)
(* name is a string, and the Python string and regular-expression calls of *)
(* the tools are operators over strings.                                   *)
(***************************************************************************)
EXTENDS Integers, Sequences, FiniteSets, TLC

(***************************************************************************)
(* Python string primitives.                                               *)
(***************************************************************************)

\* s[i] (1-based); "" outside the string
Ch(s, i) == IF i >= 1 /\ i <= Len(s) THEN SubSeq(s, i, i) ELSE ""

\* s[i-1:] of Python, for a 1-based i
From(s, i) == SubSeq(s, i, Len(s))

\* s[:n]
Take(s, n) == SubSeq(s, 1, IF n < Len(s) THEN n ELSE Len(s))

\* s.startswith(p, i-1)
StartsWithAt(s, p, i) ==
    /\ i >= 1
    /\ i + Len(p) - 1 <= Len(s)
    /\ SubSeq(s, i, i + Len(p) - 1) = p

StartsWith(s, p) == StartsWithAt(s, p, 1)

EndsWith(s, p) == Len(p) <= Len(s) /\ StartsWithAt(s, p, Len(s) - Len(p) + 1)

\* the least and the greatest element of a non-empty set of integers
MinOf(S) == CHOOSE k \in S : \A j \in S : k <= j
MaxOf(S) == CHOOSE k \in S : \A j \in S : j <= k

\* the indices >= i where p occurs in s
Occurrences(s, p, i) ==
    {k \in i..(Len(s) - Len(p) + 1) : SubSeq(s, k, k + Len(p) - 1) = p}

\* s.find(p, i-1) + 1: the first index >= i where p occurs, 0 when none
FindFrom(s, p, i) ==
    LET occ == Occurrences(s, p, i)
    IN  IF occ = {} THEN 0 ELSE MinOf(occ)

Find(s, p) == FindFrom(s, p, 1)

\* s.rfind(p) + 1
RFind(s, p) ==
    LET occ == Occurrences(s, p, 1)
    IN  IF occ = {} THEN 0 ELSE MaxOf(occ)

Contains(s, p) == Find(s, p) # 0

\* c in <a string used as a set of characters>
InClass(c, class) == Len(c) = 1 /\ Find(class, c) # 0

\* str.replace(old, new): leftmost, non-overlapping occurrences (old non-empty)
RECURSIVE Replace(_, _, _)
Replace(s, old, new) ==
    LET i == Find(s, old)
    IN  IF old = "" \/ i = 0 THEN s
        ELSE SubSeq(s, 1, i - 1) \o new
                 \o Replace(From(s, i + Len(old)), old, new)

UpperChars == "ABCDEFGHIJKLMNOPQRSTUVWXYZ"
LowerChars == "abcdefghijklmnopqrstuvwxyz"
DigitChars == "0123456789"

LowerCh(c) ==
    LET k == Find(UpperChars, c) IN IF k = 0 THEN c ELSE Ch(LowerChars, k)

\* str.lower(), on ASCII (the string is halved at each level, which keeps
\* the recursion shallow on long strings)
RECURSIVE Lower(_)
Lower(s) ==
    IF Len(s) = 0 THEN ""
    ELSE IF Len(s) = 1 THEN LowerCh(s)
    ELSE Lower(SubSeq(s, 1, Len(s) \div 2)) \o Lower(From(s, Len(s) \div 2 + 1))

\* the printable ASCII characters in code-point order (without the backquote,
\* which no modelled text holds): the order Python's sorted() compares by
AsciiOrder ==
    " !\"#$%&'()*+,-./0123456789:;<=>?@ABCDEFGHIJKLMNOPQRSTUVWXYZ[\\]^_abcdefghijklmnopqrstuvwxyz{|}~"

Ord(c) == Find(AsciiOrder, c)

\* a < b, as Python compares str: by the first differing character, a proper
\* prefix first
StrLess(a, b) ==
    LET n    == IF Len(a) < Len(b) THEN Len(a) ELSE Len(b)
        diff == {k \in 1..n : Ch(a, k) # Ch(b, k)}
    IN  IF diff = {} THEN Len(a) < Len(b)
        ELSE Ord(Ch(a, MinOf(diff))) < Ord(Ch(b, MinOf(diff)))

\* sorted(S) for a finite set of strings
RECURSIVE Sorted(_)
Sorted(S) ==
    IF S = {} THEN << >>
    ELSE LET m == CHOOSE a \in S : \A b \in S \ {a} : StrLess(a, b)
         IN  <<m>> \o Sorted(S \ {m})

\* the elements of a sequence
Range(seq) == {seq[i] : i \in 1..Len(seq)}

\* the index of the first character of s at or after i that is in `class`
\* (notIn = FALSE) or not in it (notIn = TRUE); Len(s) + 1 when none
Scan(s, i, class, notIn) ==
    LET hits == {k \in i..Len(s) : InClass(Ch(s, k), class) # notIn}
    IN  IF hits = {} THEN Len(s) + 1 ELSE MinOf(hits)


\* str.strip(): whitespace removed at both ends
Whitespace == " \t\n\r\f"

RECURSIVE RStrip(_)
RStrip(s) ==
    IF s # "" /\ InClass(Ch(s, Len(s)), Whitespace)
    THEN RStrip(SubSeq(s, 1, Len(s) - 1))
    ELSE s

Strip(s) == RStrip(From(s, Scan(s, 1, Whitespace, TRUE)))

(***************************************************************************)
(* html.escape and html.unescape.  unescape is one left-to-right pass, as  *)
(* in Python; its entity table is cut down to the five entities that       *)
(* html.escape(quote=True) writes, the only ones in the modelled documents.*)
(***************************************************************************)

Entities ==
    << <<"&amp;", "&">>, <<"&lt;", "<">>, <<"&gt;", ">">>,
       <<"&quot;", "\"">>, <<"&#x27;", "'">> >>

RECURSIVE html_unescape(_)
html_unescape(s) ==
    LET i == Find(s, "&")
    IN  IF i = 0 THEN s
        ELSE LET hits == {k \in 1..Len(Entities) :
                             StartsWithAt(s, Entities[k][1], i)}
             IN  IF hits = {}
                 THEN Take(s, i) \o html_unescape(From(s, i + 1))
                 ELSE LET k == CHOOSE k \in hits : TRUE
                      IN  SubSeq(s, 1, i - 1) \o Entities[k][2]
                            \o html_unescape(From(s, i + Len(Entities[k][1])))

html_escape(s) ==
    Replace(Replace(Replace(Replace(Replace(s,
        "&", "&amp;"), "<", "&lt;"), ">", "&gt;"), "\"", "&quot;"), "'", "&#x27;")

(***************************************************************************)
(* The regular expressions of mirror_webflow.py.                           *)
(***************************************************************************)

\* the characters URL_RE's class [^"'<>\s)] excludes
UrlStop == "\"'<>) \t\n\r\f"

\* the length of https?:// at i, 0 when it is not there
SchemeLenAt(s, i) ==
    IF StartsWithAt(s, "http://", i) THEN 7
    ELSE IF StartsWithAt(s, "https://", i) THEN 8
    ELSE 0

\* URL_RE.findall(s), as a set, scanning from i
RECURSIVE UrlFindAll(_, _)
UrlFindAll(s, i) ==
    LET h == FindFrom(s, "http", i)
    IN  IF h = 0 THEN {}
        ELSE LET n == SchemeLenAt(s, h)
                 e == Scan(s, h + n, UrlStop, FALSE)
             IN  IF n = 0 \/ e = h + n
                 THEN UrlFindAll(s, h + 1)
                 ELSE {SubSeq(s, h, e - 1)} \cup UrlFindAll(s, e)

URL_RE(s) == UrlFindAll(s, 1)

\* One match of CSS_URL_RE = url\((?P<q>['"]?)(?P<u>.*?)(?P=q)\) at h, where
\* "url(" stands: [ok, u, end].  The quoted reading is tried first; when no
\* closing quote-and-parenthesis follows on the line, the regex backtracks
\* to an empty quote and u runs to the first ")".  p is the index after
\* "url(", kq the closing quote's index (0: none), ku the first ")" from p.
CssUrlMatch(s, p, kq, ku) ==
    IF kq # 0 /\ ~Contains(SubSeq(s, p + 1, kq - 1), "\n")
    THEN [ok |-> TRUE, u |-> SubSeq(s, p + 1, kq - 1), end |-> kq + 2]
    ELSE IF ku # 0 /\ ~Contains(SubSeq(s, p, ku - 1), "\n")
    THEN [ok |-> TRUE, u |-> SubSeq(s, p, ku - 1), end |-> ku + 1]
    ELSE [ok |-> FALSE, u |-> "", end |-> p - 3]

CssUrlMatchAt(s, h) ==
    CssUrlMatch(s, h + 4,
                IF Ch(s, h + 4) = "'" \/ Ch(s, h + 4) = "\""
                THEN FindFrom(s, Ch(s, h + 4) \o ")", h + 5) ELSE 0,
                FindFrom(s, ")", h + 4))

\* {m.group("u") : m in CSS_URL_RE.finditer(s)}, scanning from i
RECURSIVE CssUrlFindAll(_, _)
CssUrlNext(s, m) ==
    IF m.ok THEN {m.u} \cup CssUrlFindAll(s, m.end)
    ELSE CssUrlFindAll(s, m.end)

CssUrlFindAll(s, i) ==
    LET h == FindFrom(s, "url(", i)
    IN  IF h = 0 THEN {} ELSE CssUrlNext(s, CssUrlMatchAt(s, h))

CSS_URL_RE(s) == CssUrlFindAll(s, 1)

\* the mirrored site's host name, as the source spells it
SiteHost == "videa-saversion.webflow.io"

\* the length of (?:&quot;|"|%22) at i under re.IGNORECASE, 0 when not there
QuoteLenAt(s, i) ==
    IF Lower(SubSeq(s, i, IF i + 5 <= Len(s) THEN i + 5 ELSE Len(s))) = "&quot;"
    THEN 6
    ELSE IF Ch(s, i) = "\"" THEN 1
    ELSE IF StartsWithAt(s, "%22", i) THEN 3
    ELSE 0

\* the characters the capture class [^"&%<>\s)] excludes
BrokenStop == "\"&%<>) \t\n\r\f"

NoMatch == [ok |-> FALSE, cap |-> "", end |-> 0]

\* (?:&quot;|"|%22)(assets/[^"&%<>\s)]+)(?:&quot;|"|%22) at j: [ok, cap, end].
\* Every closing quote starts with an excluded character, so the greedy
\* capture is the only one that can be followed by it.  a is the index of
\* "assets/", e the index after the capture, q1 and q2 the quotes' lengths.
BrokenTailClose(s, a, e, q2) ==
    IF e > a + 7 /\ q2 # 0
    THEN [ok |-> TRUE, cap |-> SubSeq(s, a, e - 1), end |-> e + q2]
    ELSE NoMatch

BrokenTailCapture(s, a, e) == BrokenTailClose(s, a, e, QuoteLenAt(s, e))

BrokenTailOpen(s, j, q1) ==
    IF /\ q1 # 0
       /\ j + q1 + 6 <= Len(s)
       /\ Lower(SubSeq(s, j + q1, j + q1 + 6)) = "assets/"
    THEN BrokenTailCapture(s, j + q1, Scan(s, j + q1 + 7, BrokenStop, FALSE))
    ELSE NoMatch

BrokenTailAt(s, j) == BrokenTailOpen(s, j, QuoteLenAt(s, j))

\* https?://videa-saversion\.webflow\.io/ at i under re.IGNORECASE: the
\* index after it, 0 when it is not there
BrokenHeadEnd(s, i) ==
    LET low == Lower(SubSeq(s, i, IF i + 8 + Len(SiteHost) <= Len(s)
                                  THEN i + 8 + Len(SiteHost) ELSE Len(s)))
    IN  IF StartsWith(low, "http://" \o SiteHost \o "/")
        THEN i + 8 + Len(SiteHost)
        ELSE IF StartsWith(low, "https://" \o SiteHost \o "/")
        THEN i + 9 + Len(SiteHost)
        ELSE 0

\* the ends d of the directory parts [^\s"']*/ from m after which the rest
\* of the pattern matches
BrokenDirs(s, m) ==
    {d \in m..(Scan(s, m, "\"' \t\n\r\f", FALSE) - 1) :
        Ch(s, d) = "/" /\ BrokenTailAt(s, d + 1).ok}

\* the optional group (?:[^\s"']*/)? is greedy: the longest directory part
\* after which the rest matches, and the empty one last
BrokenAfterHead(s, m, dirs) ==
    BrokenTailAt(s, IF dirs # {} THEN MaxOf(dirs) + 1 ELSE m)

\* One match of BROKEN_LOCAL_ASSET_RE at i: [ok, cap, end]
BrokenMatchFrom(s, m) ==
    IF m = 0 THEN NoMatch ELSE BrokenAfterHead(s, m, BrokenDirs(s, m))

BrokenMatchAt(s, i) == BrokenMatchFrom(s, BrokenHeadEnd(s, i))

\* BROKEN_LOCAL_ASSET_RE.sub(r"\1", s)
RECURSIVE BrokenSubFrom(_, _)
BrokenSubStep(s, h, m) ==
    IF m.ok
    THEN SubSeq(s, 1, h - 1) \o m.cap \o BrokenSubFrom(From(s, m.end), 1)
    ELSE BrokenSubFrom(s, h + 1)

BrokenSubAt(s, h) ==
    IF h = 0 THEN s ELSE BrokenSubStep(s, h, BrokenMatchAt(s, h))

BrokenSubFrom(s, i) == BrokenSubAt(s, FindFrom(Lower(s), "http", i))

BROKEN_LOCAL_ASSET_RE_sub(s) == BrokenSubFrom(s, 1)

(***************************************************************************)
(* urllib.parse.urlparse, pathlib and os.path, as far as the tools use     *)
(* them.  Bracketed IPv6 hosts are not modelled: no modelled URL has one.  *)
(***************************************************************************)

SchemeChars == LowerChars \o UpperChars \o DigitChars \o "+-."

\* the index of the ":" that ends url's scheme, 0 when url has no scheme
SchemeEnd(url) ==
    LET c == Find(url, ":")
    IN  IF /\ c > 1
           /\ InClass(Ch(url, 1), LowerChars \o UpperChars)
           /\ Scan(url, 1, SchemeChars, TRUE) = c
        THEN c ELSE 0

\* urlparse's splits, in its order: netloc, then fragment, then query
SplitQuery(scheme, netloc, rest, fragment) ==
    LET q == Find(rest, "?")
    IN  [scheme   |-> scheme,
         netloc   |-> netloc,
         path     |-> IF q = 0 THEN rest ELSE SubSeq(rest, 1, q - 1),
         query    |-> IF q = 0 THEN "" ELSE From(rest, q + 1),
         fragment |-> fragment]

SplitFragment(scheme, netloc, rest) ==
    LET f == Find(rest, "#")
    IN  SplitQuery(scheme, netloc,
                   IF f = 0 THEN rest ELSE SubSeq(rest, 1, f - 1),
                   IF f = 0 THEN "" ELSE From(rest, f + 1))

SplitNetloc(scheme, rest) ==
    LET ne == IF StartsWith(rest, "//") THEN Scan(rest, 3, "/?#", FALSE) ELSE 0
    IN  SplitFragment(scheme,
                      IF ne = 0 THEN "" ELSE SubSeq(rest, 3, ne - 1),
                      IF ne = 0 THEN rest ELSE From(rest, ne))

\* urlparse(url): scheme, netloc, path, query, fragment
urlparse(url) ==
    LET c == SchemeEnd(url)
    IN  SplitNetloc(IF c = 0 THEN "" ELSE Lower(SubSeq(url, 1, c - 1)),
                    IF c = 0 THEN url ELSE From(url, c + 1))

\* ParseResult.hostname: the netloc without userinfo and port, lower-cased
\* ("" where Python gives None)
HostOf(hostinfo) ==
    LET colon == Find(hostinfo, ":")
    IN  Lower(IF colon = 0 THEN hostinfo ELSE SubSeq(hostinfo, 1, colon - 1))

hostname(parsed) == HostOf(From(parsed.netloc, RFind(parsed.netloc, "@") + 1))

\* Path(p).name: the last path part, empty and "." parts dropped
RECURSIVE PathName(_)
PathName(p) ==
    LET k    == RFind(p, "/")
        last == From(p, k + 1)
    IN  IF p = "" THEN ""
        ELSE IF last = "" \/ last = "."
             THEN (IF k = 0 THEN "" ELSE PathName(SubSeq(p, 1, k - 1)))
        ELSE last

\* Path(p).suffix: from the last dot of the name, unless that dot is the
\* name's first or last character
PathSuffix(p) ==
    LET name == PathName(p)
        i    == RFind(name, ".")
    IN  IF i > 1 /\ i < Len(name) THEN From(name, i) ELSE ""

\* os.path.splitext(name) for a name without "/": the extension starts at
\* the last dot unless only dots precede it
splitext(name) ==
    LET d     == RFind(name, ".")
        split == d > 1 /\ Scan(name, 1, ".", TRUE) < d
    IN  IF split THEN <<SubSeq(name, 1, d - 1), From(name, d)>>
        ELSE <<name, "">>

\* re.sub(r"[^A-Za-z0-9._-]", "_", name)
SafeChars == UpperChars \o LowerChars \o DigitChars \o "._-"

SanitizeCh(c) == IF InClass(c, SafeChars) THEN c ELSE "_"

RECURSIVE Sanitize(_)
Sanitize(name) ==
    IF Len(name) = 0 THEN ""
    ELSE IF Len(name) = 1 THEN SanitizeCh(name)
    ELSE Sanitize(SubSeq(name, 1, Len(name) \div 2))
         \o Sanitize(From(name, Len(name) \div 2 + 1))

\* hashlib.sha256(s.encode("utf-8")).hexdigest()[:16], tabulated with the
\* real digests of the strings the modelled URLs make the tools hash
sha256_hex16(s) ==
    CASE
         s = "v=1" -> "a798de8ee75aeb55"
      [] s = "v=2" -> "269fc203435a89d1"
      [] s = "a=1&b=2" -> "8e85be58c1c372ac"
      [] s = "https://c/" -> "e10de8d23fefd15c"
      [] s = "https://c/?v=1" -> "37909040af5f7832"
      [] s = "https://c/?v=2" -> "b781dc4bac3968a4"
      [] OTHER -> "0000000000000000"

\* the lengths of _safe_filename_from_url
FallbackDigestLen == 16
QueryDigestLen == 8
MaxNameLen == 180
TruncatedStemLen == 150

\* lines 178-180: a name over 180 characters keeps 150 of its stem
Truncate(name) ==
    IF Len(name) > MaxNameLen
    THEN Take(splitext(name)[1], TruncatedStemLen) \o splitext(name)[2]
    ELSE name

\* lines 173-176: the query's digest goes between stem and extension
SpliceHash(se, qhash) ==
    IF se[2] # "" THEN se[1] \o "." \o qhash \o se[2]
    ELSE se[1] \o "." \o qhash

WithQueryHash(name, query) ==
    IF query = "" THEN name
    ELSE SpliceHash(splitext(name), Take(sha256_hex16(query), QueryDigestLen))

NameFor(url, name, query) ==
    IF name = "" THEN Take(sha256_hex16(url), FallbackDigestLen)
    ELSE Truncate(WithQueryHash(Sanitize(name), query))

FilenameOfParsed(url, parsed) == NameFor(url, PathName(parsed.path), parsed.query)

_safe_filename_from_url(url) == FilenameOfParsed(url, urlparse(url))

SKIP_HOSTS == {"www.w3.org", "w3.org", "www.linkedin.com"}

ASSET_EXTENSIONS ==
    {".css", ".js", ".png", ".jpg", ".jpeg", ".gif", ".svg", ".webp", ".ico",
     ".woff", ".woff2", ".ttf", ".otf", ".eot", ".mp4", ".webm", ".pdf", ".json"}

\* the same-site test of _is_asset_url
SameSite(host) == EndsWith(host, SiteHost)

HostIsAsset(host) ==
    /\ host # ""
    /\ host \notin SKIP_HOSTS
    /\ ~SameSite(host)

ParsedIsAsset(parsed) ==
    /\ parsed.scheme \in {"http", "https"}
    /\ HostIsAsset(hostname(parsed))
    /\ Lower(PathSuffix(parsed.path)) \in ASSET_EXTENSIONS

_is_asset_url(url) == ParsedIsAsset(urlparse(url))

\* _extract_urls_from_text
_extract_urls_from_text(text) == URL_RE(html_unescape(text))


(***************************************************************************)
(* The Asset Localizer's helpers over documents.  A path is relative to    *)
(* the site root, "/"-separated.                                           *)
(***************************************************************************)

\* "../" * n
RECURSIVE DotDot(_)
DotDot(n) == IF n <= 0 THEN "" ELSE "../" \o DotDot(n - 1)

\* len(rel.parts) - 1 of a path relative to the site root
Depth(path) == Cardinality(Occurrences(path, "/", 1))

_relative_assets_prefix(html_path) == DotDot(Depth(html_path)) \o "assets/"

\* the text _rewrite_nested_local_asset_refs leaves in a document whose
\* prefix is `prefix`
NestedRefs(text, prefix) ==
    LET r1  == Replace(text, "src=\"assets/", "src=\"" \o prefix)
        r2  == Replace(r1, "src='assets/", "src='" \o prefix)
        r3  == Replace(r2, "href=\"assets/", "href=\"" \o prefix)
        r4  == Replace(r3, "href='assets/", "href='" \o prefix)
        r5  == Replace(r4, "srcset=\"assets/", "srcset=\"" \o prefix)
        r6  == Replace(r5, "srcset='assets/", "srcset='" \o prefix)
        r7  == Replace(r6, "url(assets/", "url(" \o prefix)
        r8  == Replace(r7, "url(\"assets/", "url(\"" \o prefix)
        r9  == Replace(r8, "url('assets/", "url('" \o prefix)
        r10 == Replace(r9, "src=&quot;assets/", "src=&quot;" \o prefix)
        r11 == Replace(r10, "href=&quot;assets/", "href=&quot;" \o prefix)
        r12 == Replace(r11, "srcset=&quot;assets/", "srcset=&quot;" \o prefix)
    IN  Replace(r12, "url(&quot;assets/", "url(&quot;" \o prefix)

_rewrite_nested_local_asset_refs(html_path, text) ==
    LET prefix == _relative_assets_prefix(html_path)
    IN  IF prefix = "assets/" THEN text ELSE NestedRefs(text, prefix)

\* the loop of _rewrite_in_file over replacements.items(), a sequence of
\* <<src, dst>> in the dict's insertion order, from entry i on
RECURSIVE ReplaceAll(_, _, _)
ReplaceAll(text, replacements, i) ==
    IF i > Len(replacements) THEN text
    ELSE LET src == replacements[i][1]
             dst == replacements[i][2]
         IN  ReplaceAll(Replace(Replace(text, src, dst), html_escape(src), dst),
                        replacements, i + 1)

\* the text _rewrite_in_file leaves in a document
_rewrite_in_file(text, replacements) ==
    BROKEN_LOCAL_ASSET_RE_sub(ReplaceAll(text, replacements, 1))

\* the stylesheet fix-up of main: url("assets/x") -> url("x")
CollapseAssetsPrefix(txt) ==
    Replace(Replace(Replace(txt,
        "url(\"assets/", "url(\""), "url('assets/", "url('"), "url(assets/", "url(")

\* the url(...) references of a stylesheet that main keeps as candidates
CssCandidate(u) ==
    LET raw  == Strip(u)
        raw2 == IF StartsWith(raw, "//") THEN "https:" \o raw ELSE raw
    IN  IF StartsWith(raw, "data:") THEN ""
        ELSE IF StartsWith(raw2, "http://") \/ StartsWith(raw2, "https://")
             THEN raw2
        ELSE ""

CssDiscovered(txt) == {CssCandidate(u) : u \in CSS_URL_RE(txt)} \ {""}

\* filename_by_url[url] = filename on a dict kept as a sequence of
\* <<url, filename>>: a new key goes last, a known key keeps its place
DictKeys(d) == {d[i][1] : i \in 1..Len(d)}

DictPut(d, k, v) ==
    IF k \in DictKeys(d)
    THEN [i \in 1..Len(d) |-> IF d[i][1] = k THEN <<k, v>> ELSE d[i]]
    ELSE Append(d, <<k, v>>)

\* {u: f"assets/{fn}" ...} and {u: fn ...}
replacements_html(d) == [i \in 1..Len(d) |-> <<d[i][1], "assets/" \o d[i][2]>>]
replacements_assets(d) == d


(***************************************************************************)
(* The modelled world: what the web serves, and the mirrored sites the     *)
(* Asset Localizer is run on.                                              *)
(***************************************************************************)

\* the body a successful GET of a URL returns
Body(url) ==
    CASE url = "https://c/a.css" -> "@import url(https://c/b.css);"
      [] url = "https://c/b.css" -> "p{background:url(\"https://c/i.png\")}"
      [] url = "https://c/s.js"  -> "var u=\"https://c/j.json\";"
      [] url = "https://c/j.json" -> "{}"
      [] url = "https://c/i.png" -> "PNG-c"
      [] url = "https://c/i.png?v=2" -> "PNG-c-v2"
      [] url = "https://d/i.png" -> "PNG-d"
      [] url = "https://c/d.pdf?a=1&b=2" -> "PDF"
      [] OTHER -> "BODY"

WebUrls ==
    {"https://c/a.css", "https://c/b.css", "https://c/s.js", "https://c/j.json",
     "https://c/i.png", "https://c/i.png?v=2", "https://d/i.png",
     "https://c/d.pdf?a=1&b=2"}

\* The results one fetch attempt can have: an HTTP status, or 0 for an
\* error that is no HTTPError (URLError, timeout).  A URL's entry in `net`
\* is the set of results its fetches can have; a singleton is a fixed
\* outcome.
PermanentCodes == {400, 401, 403, 404}
NetClasses == {{200}, {404}, {500}, {0, 200}}

IndexPlain  == "<img src=\"https://c/i.png\">"
IndexPrefix == "<img src=\"https://c/i.png\"><img src=\"https://c/i.png?v=2\">"
IndexEsc    == "<a href=\"https://c/d.pdf?a=1&amp;b=2\">"
IndexCss    == "<link href=\"https://c/a.css\"><img src=\"https://c/i.png\">"
IndexJs     == "<script src=\"https://c/s.js\"></script>"
IndexHosts  == "<img src=\"https://c/i.png\"><img src=\"https://d/i.png\">"
IndexLocal  ==
    "<svg xmlns=\"http://www.w3.org/2000/x.svg\"><a href=\"https://videa-saversion.webflow.io/n.pdf\"><p style=\"background:url(https://videa-saversion.webflow.io/&quot;assets/x.png&quot;)\">"
NewsOne     == "<img src=\"assets/l.png\"><p style=\"background:url(&quot;assets/b.png&quot;)\">"
NewsSrcset  == "<img src=\"https://c/i.png\" srcset=\"assets/l.png 1x, assets/m.png 2x\">"
SiteCss     == "p{background:url(\"assets/bg.png\")}q{background:url(https://c/i.png)}"

\* a mirrored site: its files, and the URLs a run on it can fetch
Sites ==
    { [files |-> ("index.html" :> IndexPlain),
       urls  |-> {"https://c/i.png"}],
      [files |-> ("index.html" :> IndexPrefix),
       urls  |-> {"https://c/i.png", "https://c/i.png?v=2"}],
      [files |-> ("index.html" :> IndexEsc) @@ ("news/a.html" :> NewsOne),
       urls  |-> {"https://c/d.pdf?a=1&b=2"}],
      [files |-> ("index.html" :> IndexLocal) @@ ("news/y/b.html" :> NewsSrcset),
       urls  |-> {"https://c/i.png"}],
      [files |-> ("index.html" :> IndexCss),
       urls  |-> {"https://c/a.css", "https://c/b.css", "https://c/i.png"}],
      [files |-> ("index.html" :> IndexPlain) @@ ("assets/site.css" :> SiteCss),
       urls  |-> {"https://c/i.png"}],
      [files |-> ("index.html" :> IndexJs),
       urls  |-> {"https://c/s.js", "https://c/j.json"}],
      [files |-> ("index.html" :> IndexHosts),
       urls  |-> {"https://c/i.png", "https://d/i.png"}],
      [files |-> ("index.html" :> IndexPlain) @@ ("assets" :> "a file"),
       urls  |-> {"https://c/i.png"}],
      [files |-> ("readme.txt" :> "no pages"),
       urls  |-> {}] }

NoFiles == [x \in {} |-> ""]

\* how main() can be invoked: len(sys.argv), what the root path names, and
\* the files under it
Invocations ==
    {[argc |-> 2, root |-> "dir", site |-> s] : s \in Sites}
    \cup {[argc |-> a, root |-> "dir",
           site |-> [files |-> ("index.html" :> IndexPlain), urls |-> {}]] :
              a \in {1, 3}}
    \cup {[argc |-> 2, root |-> k, site |-> [files |-> NoFiles, urls |-> {}]] :
              k \in {"missing", "file"}}

\* the nets of a site: every URL the site can fetch has any class, the
\* others answer 200
NetsFor(site) ==
    {[u \in WebUrls |-> IF u \in site.urls THEN n[u] ELSE {200}] :
        n \in [site.urls -> NetClasses]}

(***************************************************************************)
(* The state.                                                              *)
(***************************************************************************)
VARIABLES
    argc,           \* len(sys.argv)
    root,           \* "dir", "file" or "missing": what sys.argv[1] names
    fs,             \* the files under the site root: path -> content
    assets_dir,     \* whether <root>/assets exists as a directory
    net,            \* URL -> the results a fetch of it can have
    pc,             \* where main() (or _download, or the Branding Rewriter) is
    exit_code,      \* the process's exit code once pc = "exit"
    html_files, asset_urls, filename_by_url, downloaded, failed,
    rewritten_html, css_files, js_files, discovered_asset_urls,
    rewritten_css, rewritten_js,     \* main()'s locals of the same names
    idx,            \* the position of main()'s current for-loop
    dl,             \* the frame of the running _download call
    run,            \* which run on this directory this is
    fs0,            \* the files as the current run found them
    fetches,        \* the fetch attempts of the current run: <<url, result>>
    sleeps,         \* the time.sleep() calls of the current run: <<url, delay>>
    failed_for,     \* the URLs `failed` was incremented for, in this run
    apply,          \* remove_branding.py: args.apply
    site_exists,    \* remove_branding.py: site_root.exists()
    rename_map,     \* remove_branding.py: main()'s rename_map, <<src, dst>> in
                    \* the dict's insertion order
    changed_files,  \* remove_branding.py: main()'s changed_files
    todo,           \* remove_branding.py: the HTML files not yet visited
    mutations,      \* remove_branding.py: the writes and renames done so far
    arg,            \* the URLs a helper is applied to on its own
    result          \* what the helper returned for them

locals == <<html_files, asset_urls, filename_by_url, downloaded, failed,
            rewritten_html, css_files, js_files, discovered_asset_urls,
            rewritten_css, rewritten_js, idx>>
invocation == <<argc, root, net, run, fs0>>
observed == <<fetches, sleeps, failed_for>>
brand == <<apply, site_exists, rename_map, changed_files, todo, mutations>>
probe == <<arg, result>>

NoCall == [url |-> "", dest |-> "", attempt |-> 0, retries |-> 0,
           ret |-> FALSE, caller |-> ""]

\* the default of _download's `retries`
DefaultRetries == 2

\* the runs on one directory that are modelled
MaxRuns == 2

\* the other tool and the helper probes take no part in a run of main()
BrandIdle ==
    /\ apply = FALSE /\ site_exists = TRUE /\ rename_map = << >>
    /\ changed_files = 0 /\ todo = {} /\ mutations = << >>

ProbeIdle == arg = << >> /\ result = << >>

FreshLocals ==
    /\ html_files = << >> /\ asset_urls = << >> /\ filename_by_url = << >>
    /\ downloaded = 0 /\ failed = 0 /\ rewritten_html = 0
    /\ css_files = << >> /\ js_files = << >> /\ discovered_asset_urls = << >>
    /\ rewritten_css = 0 /\ rewritten_js = 0 /\ idx = 0

MainInit ==
    \E inv \in Invocations :
        /\ argc = inv.argc
        /\ root = inv.root
        /\ fs = inv.site.files
        /\ assets_dir = (\E f \in DOMAIN inv.site.files : StartsWith(f, "assets/"))
        /\ net \in NetsFor(inv.site)
        /\ pc = "start"
        /\ exit_code = -1
        /\ FreshLocals
        /\ dl = NoCall
        /\ run = 1
        /\ fs0 = inv.site.files
        /\ fetches = << >> /\ sleeps = << >> /\ failed_for = << >>
        /\ BrandIdle
        /\ ProbeIdle


(***************************************************************************)
(* main() of mirror_webflow.py, one action per step.                       *)
(***************************************************************************)

\* _iter_files(<root>/dir, suffixes): dir is "" for the root itself, else
\* ends with "/"
_iter_files(dir, suffixes) ==
    Sorted({f \in DOMAIN fs : /\ StartsWith(f, dir)
                              /\ Lower(PathSuffix(f)) \in suffixes})

\* dest.exists() and dest.stat().st_size > 0
ExistsNonEmpty(dest) == dest \in DOMAIN fs /\ fs[dest] # ""

Exit(code) ==
    /\ pc' = "exit"
    /\ exit_code' = code

\* lines 237-239: the wrong number of arguments
MainUsage ==
    /\ pc = "start"
    /\ argc # 2
    /\ Exit(2)
    /\ UNCHANGED <<fs, assets_dir, locals, dl, invocation, observed,
                   brand, probe>>

\* lines 241-244: the root is missing or no directory
MainNoRoot ==
    /\ pc = "start"
    /\ argc = 2
    /\ root # "dir"
    /\ Exit(2)
    /\ UNCHANGED <<fs, assets_dir, locals, dl, invocation, observed,
                   brand, probe>>

\* lines 248-251: no .html file under the root
MainNoHtml ==
    /\ pc = "start"
    /\ argc = 2
    /\ root = "dir"
    /\ _iter_files("", {".html"}) = << >>
    /\ Exit(2)
    /\ UNCHANGED <<fs, assets_dir, locals, dl, invocation, observed,
                   brand, probe>>

\* lines 248-268: gather the asset URLs of the HTML files
MainGather ==
    /\ pc = "start"
    /\ argc = 2
    /\ root = "dir"
    /\ LET files == _iter_files("", {".html"})
           urls  == UNION {_extract_urls_from_text(fs[f]) : f \in Range(files)}
       IN  /\ files # << >>
           /\ html_files' = files
           /\ asset_urls' = Sorted({u \in urls : _is_asset_url(u)})
    /\ filename_by_url' = << >>
    /\ downloaded' = 0
    /\ failed' = 0
    /\ idx' = 1
    /\ pc' = "pass1"
    /\ UNCHANGED <<fs, assets_dir, exit_code, rewritten_html, css_files, js_files,
                   discovered_asset_urls, rewritten_css, rewritten_js, dl,
                   invocation, observed,
                   brand, probe>>

\* _download is entered (lines 185-196): mkdir of the destination's parent,
\* which raises FileExistsError out of main() when <root>/assets is a file,
\* then the attempt loop, which a negative budget never enters
Call_download(url, dest, retries, caller) ==
    IF "assets" \in DOMAIN fs
    THEN /\ Exit(1)
         /\ UNCHANGED <<assets_dir, dl>>
    ELSE /\ assets_dir' = TRUE
         /\ dl' = [url |-> url, dest |-> dest, attempt |-> 0,
                   retries |-> retries, ret |-> FALSE, caller |-> caller]
         /\ pc' = IF retries + 1 <= 0 THEN caller \o "_ret" ELSE "download"
         /\ UNCHANGED exit_code

\* lines 270-276: the next URL's file is there already
Pass1Existing ==
    /\ pc = "pass1"
    /\ idx <= Len(asset_urls)
    /\ LET url      == asset_urls[idx]
           filename == _safe_filename_from_url(url)
       IN  /\ ExistsNonEmpty("assets/" \o filename)
           /\ filename_by_url' = DictPut(filename_by_url, url, filename)
    /\ idx' = idx + 1
    /\ UNCHANGED <<fs, assets_dir, pc, exit_code, html_files, asset_urls,
                   downloaded, failed, rewritten_html, css_files, js_files,
                   discovered_asset_urls, rewritten_css, rewritten_js, dl,
                   invocation, observed,
                   brand, probe>>

\* lines 270-278: the next URL is downloaded
Pass1Download ==
    /\ pc = "pass1"
    /\ idx <= Len(asset_urls)
    /\ LET url  == asset_urls[idx]
           dest == "assets/" \o _safe_filename_from_url(url)
       IN  /\ ~ExistsNonEmpty(dest)
           /\ Call_download(url, dest, DefaultRetries, "pass1")
    /\ UNCHANGED <<fs, locals, invocation, observed,
                   brand, probe>>

\* one pass of _download's loop up to its return or its sleep
\* (lines 196-210)
DownloadAttempt ==
    /\ pc = "download"
    /\ \E outcome \in net[dl.url] :
         /\ fetches' = Append(fetches, <<dl.url, outcome>>)
         /\ IF outcome = 200
            THEN /\ fs' = (dl.dest :> Body(dl.url)) @@ fs
                 /\ dl' = [dl EXCEPT !.ret = TRUE]
                 /\ pc' = dl.caller \o "_ret"
            ELSE /\ fs' = fs
                 /\ dl' = [dl EXCEPT !.ret = FALSE]
                 /\ pc' = IF outcome \in PermanentCodes \/ dl.attempt >= dl.retries
                          THEN dl.caller \o "_ret"
                          ELSE "sleep"
    /\ UNCHANGED <<assets_dir, exit_code, locals, invocation, sleeps, failed_for,
                   brand, probe>>

\* a backoff that does not grow with the attempt
DownloadSleepFlat ==
    /\ pc = "sleep"
    /\ sleeps' = Append(sleeps, <<dl.url, 1>>)
    /\ dl' = [dl EXCEPT !.attempt = dl.attempt + 1]
    /\ pc' = "download"
    /\ UNCHANGED <<fs, assets_dir, exit_code, locals, invocation, fetches,
                   failed_for, brand, probe>>

\* line 212 and the loop's next pass
DownloadSleep ==
    /\ pc = "sleep"
    /\ sleeps' = Append(sleeps, <<dl.url, 1 + dl.attempt>>)
    /\ dl' = [dl EXCEPT !.attempt = dl.attempt + 1]
    /\ pc' = "download"
    /\ UNCHANGED <<fs, assets_dir, exit_code, locals, invocation, fetches,
                   failed_for, brand, probe>>

\* lines 279-283: _download has returned to the first loop
Pass1Return ==
    /\ pc = "pass1_ret"
    /\ IF dl.ret
       THEN /\ downloaded' = downloaded + 1
            /\ filename_by_url' = DictPut(filename_by_url, dl.url,
                                          _safe_filename_from_url(dl.url))
            /\ UNCHANGED <<failed, failed_for>>
       ELSE /\ failed' = failed + 1
            /\ failed_for' = Append(failed_for, dl.url)
            /\ UNCHANGED <<downloaded, filename_by_url>>
    /\ idx' = idx + 1
    /\ pc' = "pass1"
    /\ dl' = NoCall
    /\ UNCHANGED <<fs, assets_dir, exit_code, html_files, asset_urls,
                   rewritten_html, css_files, js_files, discovered_asset_urls,
                   rewritten_css, rewritten_js, invocation, fetches, sleeps,
                   brand, probe>>

\* lines 285-291: the first loop is over
Pass1Done ==
    /\ pc = "pass1"
    /\ idx > Len(asset_urls)
    /\ rewritten_html' = 0
    /\ idx' = 1
    /\ pc' = "html"
    /\ UNCHANGED <<fs, assets_dir, exit_code, html_files, asset_urls,
                   filename_by_url, downloaded, failed, css_files, js_files,
                   discovered_asset_urls, rewritten_css, rewritten_js, dl,
                   invocation, observed,
                   brand, probe>>

\* lines 292-296: one HTML file is rewritten (its file is written only when
\* the text changed, which leaves the same content either way)
RewriteHtml ==
    /\ pc = "html"
    /\ idx <= Len(html_files)
    /\ LET f  == html_files[idx]
           t1 == _rewrite_in_file(fs[f], replacements_html(filename_by_url))
           t2 == _rewrite_nested_local_asset_refs(f, t1)
       IN  /\ fs' = [fs EXCEPT ![f] = t2]
           /\ rewritten_html' =
                  IF t1 # fs[f] \/ t2 # t1 THEN rewritten_html + 1
                  ELSE rewritten_html
    /\ idx' = idx + 1
    /\ UNCHANGED <<assets_dir, pc, exit_code, html_files, asset_urls,
                   filename_by_url, downloaded, failed, css_files, js_files,
                   discovered_asset_urls, rewritten_css, rewritten_js, dl,
                   invocation, observed,
                   brand, probe>>

\* lines 298-324: the downloaded stylesheets and scripts are scanned
ScanAssets ==
    /\ pc = "html"
    /\ idx > Len(html_files)
    /\ LET css  == _iter_files("assets/", {".css"})
           js   == _iter_files("assets/", {".js"})
           urls == UNION {CssDiscovered(fs[f]) : f \in Range(css)}
                   \cup UNION {_extract_urls_from_text(fs[f]) : f \in Range(js)}
       IN  /\ css_files' = css
           /\ js_files' = js
           /\ discovered_asset_urls' = Sorted({u \in urls : _is_asset_url(u)})
    /\ idx' = 1
    /\ pc' = "pass2"
    /\ UNCHANGED <<fs, assets_dir, exit_code, html_files, asset_urls,
                   filename_by_url, downloaded, failed, rewritten_html,
                   rewritten_css, rewritten_js, dl, invocation, observed,
                   brand, probe>>

\* lines 326-334: the next discovered URL's file is there already
Pass2Existing ==
    /\ pc = "pass2"
    /\ idx <= Len(discovered_asset_urls)
    /\ LET url      == discovered_asset_urls[idx]
           filename == _safe_filename_from_url(url)
       IN  /\ ExistsNonEmpty("assets/" \o filename)
           /\ filename_by_url' = DictPut(filename_by_url, url, filename)
    /\ idx' = idx + 1
    /\ UNCHANGED <<fs, assets_dir, pc, exit_code, html_files, asset_urls,
                   downloaded, failed, rewritten_html, css_files, js_files,
                   discovered_asset_urls, rewritten_css, rewritten_js, dl,
                   invocation, observed,
                   brand, probe>>

\* lines 326-331: the next discovered URL is downloaded
Pass2Download ==
    /\ pc = "pass2"
    /\ idx <= Len(discovered_asset_urls)
    /\ LET url  == discovered_asset_urls[idx]
           dest == "assets/" \o _safe_filename_from_url(url)
       IN  /\ ~ExistsNonEmpty(dest)
           /\ Call_download(url, dest, DefaultRetries, "pass2")
    /\ UNCHANGED <<fs, locals, invocation, observed,
                   brand, probe>>

\* lines 332-334: _download has returned to the second loop
Pass2Return ==
    /\ pc = "pass2_ret"
    /\ filename_by_url' =
           IF dl.ret
           THEN DictPut(filename_by_url, dl.url, _safe_filename_from_url(dl.url))
           ELSE filename_by_url
    /\ idx' = idx + 1
    /\ pc' = "pass2"
    /\ dl' = NoCall
    /\ UNCHANGED <<fs, assets_dir, exit_code, html_files, asset_urls, downloaded,
                   failed, rewritten_html, css_files, js_files,
                   discovered_asset_urls, rewritten_css, rewritten_js,
                   invocation, observed,
                   brand, probe>>

\* lines 336-340: the second loop is over
Pass2Done ==
    /\ pc = "pass2"
    /\ idx > Len(discovered_asset_urls)
    /\ rewritten_css' = 0
    /\ idx' = 1
    /\ pc' = "css"
    /\ UNCHANGED <<fs, assets_dir, exit_code, html_files, asset_urls,
                   filename_by_url, downloaded, failed, rewritten_html,
                   css_files, js_files, discovered_asset_urls, rewritten_js, dl,
                   invocation, observed,
                   brand, probe>>

\* lines 341-358: one stylesheet of css_files is rewritten
RewriteCss ==
    /\ pc = "css"
    /\ idx <= Len(css_files)
    /\ LET f     == css_files[idx]
           txt   == _rewrite_in_file(fs[f], replacements_assets(filename_by_url))
           fixed == CollapseAssetsPrefix(txt)
       IN  /\ fs' = [fs EXCEPT ![f] = fixed]
           /\ rewritten_css' =
                  IF txt # fs[f] \/ fixed # txt THEN rewritten_css + 1
                  ELSE rewritten_css
    /\ idx' = idx + 1
    /\ UNCHANGED <<assets_dir, pc, exit_code, html_files, asset_urls,
                   filename_by_url, downloaded, failed, rewritten_html,
                   css_files, js_files, discovered_asset_urls, rewritten_js, dl,
                   invocation, observed,
                   brand, probe>>

\* line 360: the stylesheets are done
CssDone ==
    /\ pc = "css"
    /\ idx > Len(css_files)
    /\ rewritten_js' = 0
    /\ idx' = 1
    /\ pc' = "js"
    /\ UNCHANGED <<fs, assets_dir, exit_code, html_files, asset_urls,
                   filename_by_url, downloaded, failed, rewritten_html,
                   css_files, js_files, discovered_asset_urls, rewritten_css, dl,
                   invocation, observed,
                   brand, probe>>

\* lines 361-363: one script of js_files is rewritten
RewriteJs ==
    /\ pc = "js"
    /\ idx <= Len(js_files)
    /\ LET f   == js_files[idx]
           txt == _rewrite_in_file(fs[f], replacements_assets(filename_by_url))
       IN  /\ fs' = [fs EXCEPT ![f] = txt]
           /\ rewritten_js' =
                  IF txt # fs[f] THEN rewritten_js + 1 ELSE rewritten_js
    /\ idx' = idx + 1
    /\ UNCHANGED <<assets_dir, pc, exit_code, html_files, asset_urls,
                   filename_by_url, downloaded, failed, rewritten_html,
                   css_files, js_files, discovered_asset_urls, rewritten_css, dl,
                   invocation, observed,
                   brand, probe>>

\* lines 365-371: main() returns 0
MainDone ==
    /\ pc = "js"
    /\ idx > Len(js_files)
    /\ Exit(0)
    /\ UNCHANGED <<fs, assets_dir, locals, dl, invocation, observed,
                   brand, probe>>

\* the tool is run again on the directory the completed run left
Rerun ==
    /\ pc = "exit"
    /\ exit_code = 0
    /\ run < MaxRuns
    /\ run' = run + 1
    /\ fs0' = fs
    /\ pc' = "start"
    /\ exit_code' = -1
    /\ html_files' = << >> /\ asset_urls' = << >> /\ filename_by_url' = << >>
    /\ downloaded' = 0 /\ failed' = 0 /\ rewritten_html' = 0
    /\ css_files' = << >> /\ js_files' = << >> /\ discovered_asset_urls' = << >>
    /\ rewritten_css' = 0 /\ rewritten_js' = 0 /\ idx' = 0
    /\ dl' = NoCall
    /\ fetches' = << >> /\ sleeps' = << >> /\ failed_for' = << >>
    /\ UNCHANGED <<argc, root, fs, assets_dir, net, brand, probe>>

vars == <<argc, root, fs, assets_dir, net, pc, exit_code, locals, dl, run, fs0,
          fetches, sleeps, failed_for, brand, probe>>

Init == MainInit

Next ==
    \/ MainUsage \/ MainNoRoot \/ MainNoHtml \/ MainGather
    \/ Pass1Existing \/ Pass1Download \/ DownloadAttempt \/ DownloadSleep
    \/ Pass1Return \/ Pass1Done
    \/ RewriteHtml \/ ScanAssets
    \/ Pass2Existing \/ Pass2Download \/ Pass2Return \/ Pass2Done
    \/ RewriteCss \/ CssDone \/ RewriteJs \/ MainDone
    \/ Rerun

Spec == Init /\ [][Next]_vars


(***************************************************************************)
(* The Branding Rewriter, remove_branding.py.  Its regular expressions     *)
(* are sequences of tokens: a literal, an optional literal, a run of a     *)
(* character class, a word boundary.  In every pattern of the tool the     *)
(* token after an optional or repeated one cannot match what that one      *)
(* consumes, so the greedy reading is the only one.                        *)
(***************************************************************************)

WordChars == UpperChars \o LowerChars \o DigitChars \o "_"

\* \b at i: exactly one of the characters before and at i is a word character
WordBoundary(s, i) ==
    InClass(Ch(s, i - 1), WordChars) # InClass(Ch(s, i), WordChars)

Lit(str)     == [k |-> "lit",  s |-> str, ci |-> FALSE]
LitI(str)    == [k |-> "lit",  s |-> str, ci |-> TRUE]
Opt(str)     == [k |-> "opt",  s |-> str, ci |-> FALSE]
OptI(str)    == [k |-> "opt",  s |-> str, ci |-> TRUE]
Star(cls)    == [k |-> "star", s |-> cls, ci |-> FALSE]
Plus(cls)    == [k |-> "plus", s |-> cls, ci |-> FALSE]
StarNot(cls) == [k |-> "starnot", s |-> cls, ci |-> FALSE]
WB           == [k |-> "wb",   s |-> "",  ci |-> FALSE]

\* the token's literal stands at i (under re.IGNORECASE when t.ci)
LitAt(s, i, t) ==
    /\ i + Len(t.s) - 1 <= Len(s)
    /\ IF t.ci THEN Lower(SubSeq(s, i, i + Len(t.s) - 1)) = Lower(t.s)
       ELSE SubSeq(s, i, i + Len(t.s) - 1) = t.s

\* the index after the match of toks[k..] at i, 0 when there is none
RECURSIVE ReMatch(_, _, _, _)
ReMatch(s, i, toks, k) ==
    IF k > Len(toks) THEN i
    ELSE CASE toks[k].k = "lit" ->
                  IF LitAt(s, i, toks[k])
                  THEN ReMatch(s, i + Len(toks[k].s), toks, k + 1) ELSE 0
           [] toks[k].k = "opt" ->
                  ReMatch(s, IF LitAt(s, i, toks[k]) THEN i + Len(toks[k].s) ELSE i,
                          toks, k + 1)
           [] toks[k].k = "star" ->
                  ReMatch(s, Scan(s, i, toks[k].s, TRUE), toks, k + 1)
           [] toks[k].k = "starnot" ->
                  ReMatch(s, Scan(s, i, toks[k].s, FALSE), toks, k + 1)
           [] toks[k].k = "plus" ->
                  IF InClass(Ch(s, i), toks[k].s)
                  THEN ReMatch(s, Scan(s, i, toks[k].s, TRUE), toks, k + 1) ELSE 0
           [] toks[k].k = "wb" ->
                  IF WordBoundary(s, i) THEN ReMatch(s, i, toks, k + 1) ELSE 0

\* re.sub(toks, repl, s) from index i on: the leftmost match, then the rest
RECURSIVE ReSubFrom(_, _, _, _)
ReSubAt(s, toks, repl, i, hits) ==
    IF hits = {} THEN From(s, i)
    ELSE SubSeq(s, i, MinOf(hits) - 1) \o repl
         \o ReSubFrom(s, toks, repl, ReMatch(s, MinOf(hits), toks, 1))

ReSubFrom(s, toks, repl, i) ==
    ReSubAt(s, toks, repl, i, {j \in i..Len(s) : ReMatch(s, j, toks, 1) # 0})

re_sub(toks, repl, s) == ReSubFrom(s, toks, repl, 1)

\* the substitutions of apply_rewrites, in its order: <<pattern, replacement>>.
\* A str.replace is a pattern of one literal.  The typographic apostrophe of
\* the possessive rule is left out: the modelled texts are ASCII.
RewriteRules ==
    << <<  <<LitI("mailto:contact@videa.ai?subject=Videa%20Health%20Contact%20Form")>>,
           "mailto:contact@example.com?subject=Contact%20Form">>,
       <<  <<LitI("contact"), Star(Whitespace), LitI("@videa.ai")>>,
           "contact@example.com">>,
       <<  <<LitI("http"), OptI("s"), LitI("://"), OptI("www."), LitI("videa.ai"),
             Opt("/")>>,
           "#">>,
       <<  <<LitI("http"), OptI("s"), LitI("://jobs.lever.co/videahealth"),
             StarNot("\"'")>>,
           "#">>,
       <<  <<LitI("http"), OptI("s"),
             LitI("://www.linkedin.com/company/videahealth"), Opt("/")>>,
           "#">>,
       <<  <<Lit("<title>"), Star(Whitespace), Lit("Videa"), Star(Whitespace),
             Lit("-"), Star(Whitespace)>>,
           "<title>">>,
       <<  <<Lit("content=\""), Star(Whitespace), Lit("Videa"), Star(Whitespace),
             Lit("-"), Star(Whitespace)>>,
           "content=\"">>,
       <<  <<Lit("<title>"), Star(Whitespace), Lit("Videa"), Plus(Whitespace),
             Lit("Press"), Star(Whitespace), Lit("-"), Star(Whitespace)>>,
           "<title>Press - ">>,
       <<  <<Lit("content=\""), Star(Whitespace), Lit("Videa"), Plus(Whitespace),
             Lit("Press"), Star(Whitespace), Lit("-"), Star(Whitespace)>>,
           "content=\"Press - ">>,
       <<  <<WB, Lit("VideaHealth"), WB>>, "the company">>,
       <<  <<WB, Lit("Videa"), Plus(Whitespace), Lit("Health"), WB>>, "the company">>,
       <<  <<WB, Lit("Videa"), Plus(Whitespace), Lit("Healthcare"), WB>>, "Healthcare">>,
       <<  <<WB, Lit("Videa"), Plus(Whitespace), Lit("Team"), WB>>, "Our Team">>,
       <<  <<WB, Lit("Videa"), Plus(Whitespace), Lit("Detect"), WB>>, "Detect">>,
       <<  <<WB, Lit("Videa"), Plus(Whitespace), Lit("Insights"), WB>>, "Insights">>,
       <<  <<Lit("VideaDetect")>>, "Detect">>,
       <<  <<Lit("VideaTeach")>>, "Teach">>,
       <<  <<WB, Lit("Videa"), Opt("Health"), Lit("'s"), WB>>, "our">>,
       <<  <<WB, Lit("Videa"), WB>>, "">>,
       <<  <<Lit("data-wf-domain=\"videa-saversion.webflow.io\"")>>,
           "data-wf-domain=\"\"">> >>

RECURSIVE ApplyRules(_, _, _)
ApplyRules(text, rules, i) ==
    IF i > Len(rules) \/ text = "" THEN text
    ELSE ApplyRules(re_sub(rules[i][1], rules[i][2], text), rules, i + 1)

apply_rewrites(text) == ApplyRules(text, RewriteRules, 1)

\* Path(p).stem: the name without its suffix
PathStem(p) == SubSeq(PathName(p), 1, Len(PathName(p)) - Len(PathSuffix(p)))

\* p.exists(): a file, or a directory that holds one
PathExists(p, files) ==
    \/ p \in DOMAIN files
    \/ \E f \in DOMAIN files : StartsWith(f, p \o "/")

CssOld == "assets/videa-saversion.9b1352011.css"
JsOld  == "assets/videa-saversion.d9a4b8013.js"
BrandImages ==
    << "63b86b66011d4fd93a44a1a7_videa_insights.jpg",
       "63b86b66011d4fd27044a1c7_videa_detect.jpg",
       "63b86b66011d4fd27044a1c7_videa_detect-p-1080.jpeg" >>

\* line 49
ImageNewName(old_name) == Replace(Replace(old_name, "_videa_", "_"), "videa_", "")

\* lines 55-60; -{2,} is two dashes and every dash after them
NewsNewName(name) ==
    re_sub(<<Lit("--"), Star("-")>>, "-",
           Replace(Replace(Replace(Replace(name,
               "-with-videahealth-to-", "-to-"),
               "-videahealth-", "-"),
               "videahealth-", ""),
               "-videahealth", ""))

\* news.glob("*videahealth*.html"): the entries of news/ itself whose name
\* ends with .html after an occurrence of videahealth
NewsMatches(files) ==
    {f \in DOMAIN files :
        /\ StartsWith(f, "news/")
        /\ ~Contains(From(f, 6), "/")
        /\ EndsWith(f, ".html")
        /\ Contains(SubSeq(f, 6, Len(f) - 5), "videahealth")}

\* the orders in which glob can yield the members of S
Orders(S) ==
    {o \in [1..Cardinality(S) -> S] : \A x \in S : \E i \in DOMAIN o : o[i] = x}

FixedRenames(files) ==
    (IF PathExists(CssOld, files)
     THEN << <<CssOld, "assets/site.9b1352011.css">> >> ELSE << >>)
    \o (IF PathExists(JsOld, files)
        THEN << <<JsOld, "assets/site.d9a4b8013.js">> >> ELSE << >>)
    \o SelectSeq([i \in 1..Len(BrandImages) |->
                     <<"assets/" \o BrandImages[i],
                       "assets/" \o ImageNewName(BrandImages[i])>>],
                 LAMBDA e : PathExists(e[1], files))

\* build_rename_map(site_root) when glob yields the news pages in `order`
build_rename_map(files, order) ==
    FixedRenames(files)
    \o [i \in 1..Len(order) |->
           <<order[i], "news/" \o NewsNewName(PathName(order[i]))>>]

\* a validation that leaves out the test of line 74
validate_without_exists(m, files) ==
    \A i \in 1..Len(m) :
        /\ m[i][1] # m[i][2]
        /\ \A j \in 1..(i - 1) : m[j][2] # m[i][2]

\* validate_rename_map(rename_map) returns (TRUE) or raises SystemExit
validate_rename_map(m, files) ==
    \A i \in 1..Len(m) :
        /\ m[i][1] # m[i][2]
        /\ \A j \in 1..(i - 1) : m[j][2] # m[i][2]
        /\ ~(PathExists(m[i][2], files) /\ m[i][2] \notin DictKeys(m))

\* lines 140-142
basename_map(m) == [i \in 1..Len(m) |-> <<PathName(m[i][1]), PathName(m[i][2])>>]

stem_map(m) ==
    [i \in 1..Len(SelectSeq(m, LAMBDA e : Lower(PathSuffix(e[1])) = ".html")) |->
        <<PathStem(SelectSeq(m, LAMBDA e : Lower(PathSuffix(e[1])) = ".html")[i][1]),
          PathStem(SelectSeq(m, LAMBDA e : Lower(PathSuffix(e[1])) = ".html")[i][2])>>]

\* for old, new in pairs: text = text.replace(old, new)
RECURSIVE ReplacePairs(_, _, _)
ReplacePairs(text, pairs, i) ==
    IF i > Len(pairs) THEN text
    ELSE ReplacePairs(Replace(text, pairs[i][1], pairs[i][2]), pairs, i + 1)

\* lines 146-154: what main() makes of one HTML document
UpdatedHtml(text, m) ==
    apply_rewrites(ReplacePairs(ReplacePairs(text, basename_map(m), 1),
                                stem_map(m), 1))

\* line 176: sorted by the length of the source path, longest first; the
\* sort is stable
RECURSIVE RenameOrder(_)
RenameFirst(m, longest) ==
    <<m[longest]>> \o RenameOrder([i \in 1..(Len(m) - 1) |->
                                     IF i < longest THEN m[i] ELSE m[i + 1]])

RenameOrder(m) ==
    IF m = << >> THEN << >>
    ELSE RenameFirst(m, MinOf({i \in 1..Len(m) :
                                  \A j \in 1..Len(m) : Len(m[j][1]) <= Len(m[i][1])}))

\* os.rename(src, dst) on the files
Renamed(files, src, dst) ==
    [p \in (DOMAIN files \ {src}) \cup {dst} |->
        IF p = dst THEN files[src] ELSE files[p]]

BrandHome ==
    "<title>Videa - Home</title><a href=\"news/a-videahealth-b.html\">VideaHealth news</a>"
BrandNews == "<p>Videa Detect by contact @videa.ai</p>"
BrandPlain == "<p>plain</p>"
BrandScript == "<script src=\"assets/videa-saversion.d9a4b8013.js\"></script>"
BrandLinks ==
    "<a href=\"news/c-with-videahealth-to-d.html\">Videa Team</a><a href=\"HTTPS://www.videa.ai/\">x</a>"
BrandCss == "a{background:url(63b86b66011d4fd93a44a1a7_videa_insights.jpg)}"

\* the sites the Branding Rewriter is run on
BrandSites ==
    { ("index.html" :> BrandHome) @@ ("news/a-videahealth-b.html" :> BrandNews)
         @@ (CssOld :> BrandCss)
         @@ ("assets/63b86b66011d4fd93a44a1a7_videa_insights.jpg" :> "JPG"),
      ("index.html" :> BrandPlain) @@ ("news/videahealth.html" :> BrandPlain),
      ("index.html" :> BrandPlain) @@ ("news/videahealth-x.html" :> BrandNews)
         @@ ("news/x-videahealth.html" :> BrandPlain),
      ("index.html" :> BrandHome) @@ ("news/videahealth-x.html" :> BrandNews)
         @@ ("news/x.html" :> BrandPlain),
      ("index.html" :> BrandPlain) @@ (CssOld :> BrandCss)
         @@ ("assets/site.9b1352011.css" :> "a{}"),
      ("index.html" :> BrandPlain),
      ("index.html" :> BrandScript) @@ (JsOld :> "var v;"),
      ("index.html" :> BrandHome) @@ ("news/a-videahealth-b.html" :> BrandNews)
         @@ ("news/c-with-videahealth-to-d.html" :> BrandLinks),
      ("index.html" :> BrandLinks) @@ (CssOld :> "a{}") @@ (JsOld :> "var v;")
         @@ ("news/c-with-videahealth-to-d.html" :> BrandPlain) }

MainIdle ==
    /\ argc = 2 /\ root = "dir" /\ assets_dir = TRUE
    /\ net = [u \in WebUrls |-> {200}]
    /\ FreshLocals
    /\ dl = NoCall
    /\ run = 1
    /\ fetches = << >> /\ sleeps = << >> /\ failed_for = << >>

BrandInit ==
    /\ apply \in BOOLEAN
    /\ site_exists \in BOOLEAN
    /\ fs \in (IF site_exists THEN BrandSites ELSE {NoFiles})
    /\ fs0 = fs
    /\ pc = "start"
    /\ exit_code = -1
    /\ rename_map = << >> /\ changed_files = 0 /\ todo = {} /\ mutations = << >>
    /\ MainIdle
    /\ ProbeIdle

\* lines 133-134
BrandNoRoot ==
    /\ pc = "start"
    /\ ~site_exists
    /\ Exit(1)
    /\ UNCHANGED <<fs, assets_dir, locals, dl, invocation, observed, brand, probe>>

\* lines 136-137: the plan does not pass validate_rename_map
BrandRefuse ==
    /\ pc = "start"
    /\ site_exists
    /\ \E order \in Orders(NewsMatches(fs)) :
         /\ ~validate_rename_map(build_rename_map(fs, order), fs)
         /\ rename_map' = build_rename_map(fs, order)
    /\ Exit(1)
    /\ UNCHANGED <<fs, assets_dir, locals, dl, invocation, observed, apply,
                   site_exists, changed_files, todo, mutations, probe>>

\* lines 136-144: the plan is made and passes
BrandPlan ==
    /\ pc = "start"
    /\ site_exists
    /\ \E order \in Orders(NewsMatches(fs)) :
         /\ validate_rename_map(build_rename_map(fs, order), fs)
         /\ rename_map' = build_rename_map(fs, order)
    /\ changed_files' = 0
    /\ todo' = {f \in DOMAIN fs : EndsWith(f, ".html")}
    /\ pc' = "html"
    /\ UNCHANGED <<fs, assets_dir, exit_code, locals, dl, invocation, observed,
                   apply, site_exists, mutations, probe>>

\* lines 145-159: one HTML file, in whatever order rglob yields them
BrandHtml ==
    /\ pc = "html"
    /\ \E path \in todo :
         /\ todo' = todo \ {path}
         /\ IF UpdatedHtml(fs[path], rename_map) # fs[path]
            THEN /\ changed_files' = changed_files + 1
                 /\ IF apply
                    THEN /\ fs' = [fs EXCEPT ![path] = UpdatedHtml(fs[path], rename_map)]
                         /\ mutations' = Append(mutations, <<"write", path>>)
                    ELSE UNCHANGED <<fs, mutations>>
            ELSE UNCHANGED <<fs, mutations, changed_files>>
    /\ UNCHANGED <<assets_dir, pc, exit_code, locals, dl, invocation, observed,
                   apply, site_exists, rename_map, probe>>

\* lines 161-172: the stylesheet bundle
BrandCssBundle ==
    /\ pc = "html"
    /\ todo = {}
    /\ IF /\ PathExists(CssOld, fs)
          /\ ReplacePairs(fs[CssOld], basename_map(rename_map), 1) # fs[CssOld]
       THEN /\ changed_files' = changed_files + 1
            /\ IF apply
               THEN /\ fs' = [fs EXCEPT ![CssOld] =
                                 ReplacePairs(fs[CssOld], basename_map(rename_map), 1)]
                    /\ mutations' = Append(mutations, <<"write", CssOld>>)
               ELSE UNCHANGED <<fs, mutations>>
       ELSE UNCHANGED <<fs, mutations, changed_files>>
    /\ idx' = 1
    /\ pc' = "rename"
    /\ UNCHANGED <<assets_dir, exit_code, html_files, asset_urls, filename_by_url,
                   downloaded, failed, rewritten_html, css_files, js_files,
                   discovered_asset_urls, rewritten_css, rewritten_js, dl,
                   invocation, observed, apply, site_exists, rename_map, todo,
                   probe>>

\* lines 174-178: the next rename of the plan
BrandRename ==
    /\ pc = "rename"
    /\ apply
    /\ idx <= Len(rename_map)
    /\ IF PathExists(RenameOrder(rename_map)[idx][1], fs)
       THEN /\ fs' = Renamed(fs, RenameOrder(rename_map)[idx][1],
                                 RenameOrder(rename_map)[idx][2])
            /\ mutations' = Append(mutations, <<"rename">> \o RenameOrder(rename_map)[idx])
       ELSE UNCHANGED <<fs, mutations>>
    /\ idx' = idx + 1
    /\ UNCHANGED <<assets_dir, pc, exit_code, html_files, asset_urls,
                   filename_by_url, downloaded, failed, rewritten_html, css_files,
                   js_files, discovered_asset_urls, rewritten_css, rewritten_js, dl,
                   invocation, observed, apply, site_exists, rename_map,
                   changed_files, todo, probe>>

\* lines 180-185: the report; main() returns
BrandDone ==
    /\ pc = "rename"
    /\ ~apply \/ idx > Len(rename_map)
    /\ Exit(0)
    /\ UNCHANGED <<fs, assets_dir, locals, dl, invocation, observed, brand, probe>>

BrandNext ==
    \/ BrandNoRoot \/ BrandRefuse \/ BrandPlan
    \/ BrandHtml \/ BrandCssBundle \/ BrandRename \/ BrandDone

SpecBrand == BrandInit /\ [][BrandNext]_vars


(***************************************************************************)
(* _download on its own: one call with any retry budget up to MaxRetries,  *)
(* against a URL whose fetches can have any results.                       *)
(***************************************************************************)
MaxRetries == 3

DlNetClasses == NetClasses \cup {{0, 200, 404, 500}}

DlUrls == {"https://c/i.png", "https://c/d.pdf?a=1&b=2"}

DlInit ==
    /\ argc = 2 /\ root = "dir"
    /\ fs \in {("index.html" :> IndexPlain),
               ("index.html" :> IndexPlain) @@ ("assets/i.png" :> "OLD")}
    /\ assets_dir = ("assets/i.png" \in DOMAIN fs)
    /\ net \in {[u \in WebUrls |-> c] : c \in DlNetClasses}
    /\ pc = "call"
    /\ exit_code = -1
    /\ FreshLocals
    /\ dl = NoCall
    /\ run = 1
    /\ fs0 = fs
    /\ fetches = << >> /\ sleeps = << >> /\ failed_for = << >>
    /\ BrandIdle
    /\ ProbeIdle

\* _download(url, assets_dir / _safe_filename_from_url(url), retries=r)
DirectCall ==
    /\ pc = "call"
    /\ \E url \in DlUrls, r \in 0..MaxRetries :
         Call_download(url, "assets/" \o _safe_filename_from_url(url), r, "direct")
    /\ UNCHANGED <<fs, locals, invocation, observed, brand, probe>>

NextDl == DirectCall \/ DownloadAttempt \/ DownloadSleep

SpecDl == DlInit /\ [][NextDl]_vars


(***************************************************************************)
(* _safe_filename_from_url and _is_asset_url on their own, applied to      *)
(* URLs drawn from bounded sets.                                           *)
(***************************************************************************)
MaxStemLen == 200

\* "a" * n
RECURSIVE Stem(_)
Stem(n) ==
    IF n <= 0 THEN ""
    ELSE IF n = 1 THEN "a"
    ELSE Stem(n \div 2) \o Stem(n - n \div 2)

\* the lengths around which a name with or without extension and query
\* digest passes 180 characters
StemLens == {1, 150, 167, 168, 172, 177, MaxStemLen}

ProbeQueries == {"", "v=1", "v=2"}

WithQuery(url, q) == IF q = "" THEN url ELSE url \o "?" \o q

\* pairs of URLs that differ in their query string only
NameProbes ==
    {<<WithQuery("https://c/" \o Stem(n) \o e, q1),
       WithQuery("https://c/" \o Stem(n) \o e, q2)>> :
        n \in StemLens, e \in {"", ".png"},
        q1 \in ProbeQueries, q2 \in ProbeQueries \ {""}}

ProbeHosts ==
    {"c", "www.w3.org", "w3.org", "www.linkedin.com", SiteHost,
     "cdn." \o SiteHost, "not" \o SiteHost, "C.Example.com", "u@c:8080"}

ClassProbes ==
    {<<scheme \o "://" \o host \o path>> :
        scheme \in {"http", "https", "HTTPS", "ftp"},
        host \in ProbeHosts,
        path \in {"/i.png", "/I.PNG", "/page.html", "/x", "/a.b/f.woff2?x=1"}}

FnInit ==
    /\ arg \in NameProbes \cup ClassProbes
    /\ result = << >>
    /\ pc = "fn"
    /\ exit_code = -1
    /\ fs = NoFiles /\ fs0 = NoFiles
    /\ MainIdle
    /\ BrandIdle

ApplySafeFilename ==
    /\ pc = "fn"
    /\ result' = [i \in DOMAIN arg |-> _safe_filename_from_url(arg[i])]
    /\ pc' = "named"
    /\ UNCHANGED <<fs, assets_dir, exit_code, locals, dl, invocation, observed,
                   brand, arg>>

ApplyIsAsset ==
    /\ pc = "fn"
    /\ result' = [i \in DOMAIN arg |-> _is_asset_url(arg[i])]
    /\ pc' = "classified"
    /\ UNCHANGED <<fs, assets_dir, exit_code, locals, dl, invocation, observed,
                   brand, arg>>

NextFn == ApplySafeFilename \/ ApplyIsAsset

SpecFn == FnInit /\ [][NextFn]_vars


(***************************************************************************)
(* The properties.                                                         *)
(***************************************************************************)

Finished == pc = "exit" /\ exit_code = 0

\* every URL's fetches have one fixed result
FixedNet == \A u \in WebUrls : Cardinality(net[u]) = 1

HtmlPaths(files) == {f \in DOMAIN files : Lower(PathSuffix(f)) = ".html"}

CssPaths(files) ==
    {f \in DOMAIN files : StartsWith(f, "assets/") /\ Lower(PathSuffix(f)) = ".css"}

\* where p stands in text as a whole URL: what follows it ends a URL
WholeAt(text, p) ==
    {i \in Occurrences(text, p, 1) :
        \/ i + Len(p) > Len(text)
        \/ InClass(Ch(text, i + Len(p)), UrlStop)}

\* the occurrences of the URL u in text, raw or HTML-entity-escaped
UrlOccurrences(text, u) == WholeAt(text, u) \cup WholeAt(text, html_escape(u))

\* the n characters before index i
Before(s, i, n) == IF n > 0 /\ i - n >= 1 THEN SubSeq(s, i - n, i - 1) ELSE ""

\* C1: with fixed fetch outcomes, a second run on the directory a completed
\* first run left downloads nothing and rewrites nothing: every file is as
\* the second run found it.
C1_SecondRunChangesNothing ==
    (run = 2 /\ Finished /\ FixedNet) =>
        /\ \A k \in DOMAIN fetches : fetches[k][2] # 200
        /\ downloaded = 0
        /\ rewritten_html = 0 /\ rewritten_css = 0 /\ rewritten_js = 0
        /\ fs = fs0

\* every fetch answers 200, and the second run has rewritten the stylesheet
\* that the first run downloaded in its second pass
C1_LateStylesheet ==
    /\ run = 2 /\ Finished
    /\ \A u \in WebUrls : net[u] = {200}
    /\ "assets/b.css" \in DOMAIN fs0
    /\ fetches = << >>
    /\ rewritten_css = 1
    /\ fs["assets/b.css"] # fs0["assets/b.css"]

\* C2: an asset URL of the HTML whose fetch was answered 400, 401, 403 or
\* 404, with no destination file there before, is fetched exactly once and
\* never slept for, is not in filename_by_url, counts as one failure, and
\* every occurrence of it in the documents is as it was.
C2_NotFoundLeftAlone ==
    (run = 1 /\ Finished) =>
        \A u \in Range(asset_urls) :
            (/\ \E c \in PermanentCodes : <<u, c>> \in Range(fetches)
             /\ ("assets/" \o _safe_filename_from_url(u)) \notin DOMAIN fs0) =>
                /\ Cardinality({k \in DOMAIN fetches : fetches[k][1] = u}) = 1
                /\ \A k \in DOMAIN sleeps : sleeps[k][1] # u
                /\ u \notin DictKeys(filename_by_url)
                /\ Cardinality({k \in DOMAIN failed_for : failed_for[k] = u}) = 1
                /\ \A f \in DOMAIN fs0 :
                       UrlOccurrences(fs[f], u) = UrlOccurrences(fs0[f], u)

\* the URL that answered 404 has the mapped URL as a prefix, and its
\* occurrence has been rewritten
C2_PrefixRewritten ==
    /\ run = 1 /\ Finished
    /\ fetches = <<<<"https://c/i.png", 200>>, <<"https://c/i.png?v=2", 404>>>>
    /\ DictKeys(filename_by_url) = {"https://c/i.png"}
    /\ fs0["index.html"] = IndexPrefix
    /\ fs["index.html"] = "<img src=\"assets/i.png\"><img src=\"assets/i.png?v=2\">"

\* C3: after one run, an asset URL u of an HTML document whose fetch
\* succeeds occurs in no HTML document any more, and each document that
\* held it holds assets/<_safe_filename_from_url(u)> at least as often as it
\* held u, whatever other URLs are mapped.
C3_OwnLocalReference ==
    (run = 1 /\ Finished) =>
        \A f \in HtmlPaths(fs0) :
            \A u \in {v \in Range(asset_urls) : net[v] = {200}} :
                /\ UrlOccurrences(fs[f], u) = {}
                /\ Cardinality(Occurrences(fs[f],
                       "assets/" \o _safe_filename_from_url(u), 1))
                   >= Cardinality(UrlOccurrences(fs0[f], u))

\* both URLs are downloaded, and the longer one's occurrence holds the
\* shorter one's file name
C3_PrefixFirst ==
    /\ run = 1 /\ Finished
    /\ filename_by_url = << <<"https://c/i.png", "i.png">>,
                            <<"https://c/i.png?v=2", "i.269fc203.png">> >>
    /\ fs0["index.html"] = IndexPrefix
    /\ fs["index.html"] = "<img src=\"assets/i.png\"><img src=\"assets/i.png?v=2\">"

\* C4: once the HTML documents are rewritten, every assets/ reference in a
\* document at depth d has exactly d levels of ../ before it (in the
\* modelled documents every occurrence of assets/ is a reference in src,
\* href, srcset or url()), and a document at depth 0 is as _rewrite_in_file
\* left it.
C4_NestedPrefix ==
    (run = 1 /\ pc = "html" /\ idx > Len(html_files)) =>
        \A f \in Range(html_files) :
            /\ \A i \in Occurrences(fs[f], "assets/", 1) :
                   /\ Before(fs[f], i, 3 * Depth(f)) = DotDot(Depth(f))
                   /\ Before(fs[f], i - 3 * Depth(f), 3) # "../"
            /\ Depth(f) = 0 =>
                   fs[f] = _rewrite_in_file(fs0[f], replacements_html(filename_by_url))

\* the second candidate of a srcset two levels down has no ../
C4_SecondCandidate ==
    /\ run = 1 /\ pc = "html" /\ idx > Len(html_files)
    /\ "news/y/b.html" \in DOMAIN fs
    /\ Contains(fs["news/y/b.html"],
                "srcset=\"../../assets/l.png 1x, assets/m.png 2x\"")

\* C5: when a run ends, no stylesheet in assets/ (those downloaded in pass 2
\* included) holds url(assets/, url("assets/ or url('assets/, nor any URL of
\* filename_by_url.
C5_StylesheetsLocal ==
    (run = 1 /\ Finished) =>
        \A f \in CssPaths(fs) :
            /\ ~Contains(fs[f], "url(assets/")
            /\ ~Contains(fs[f], "url(\"assets/")
            /\ ~Contains(fs[f], "url('assets/")
            /\ \A u \in DictKeys(filename_by_url) : WholeAt(fs[f], u) = {}

\* the stylesheet downloaded in pass 2 still holds a mapped URL
C5_LateStylesheet ==
    /\ run = 1 /\ Finished
    /\ "assets/b.css" \in DOMAIN fs
    /\ fs["assets/b.css"] = Body("https://c/b.css")
    /\ "https://c/i.png" \in DictKeys(filename_by_url)

\* the two URLs are the same but for their query strings, which differ
DifferOnlyInQuery(u1, u2) ==
    /\ urlparse(u1).query # urlparse(u2).query
    /\ [urlparse(u1) EXCEPT !.query = ""] = [urlparse(u2) EXCEPT !.query = ""]

\* C6: two URLs that differ in their query string only get different
\* filenames, whatever the length of the last path segment.
C6_QueryDistinguishes ==
    (pc = "named" /\ Len(arg) = 2 /\ DifferOnlyInQuery(arg[1], arg[2])) =>
        result[1] # result[2]

\* a long name with an extension: the digest falls to the truncation
C6_DigestCut ==
    /\ pc = "named"
    /\ arg = <<"https://c/" \o Stem(168) \o ".png?v=1",
               "https://c/" \o Stem(168) \o ".png?v=2">>
    /\ result = <<Stem(150) \o ".png", Stem(150) \o ".png">>

\* the host is the mirrored site's, or a subdomain of it
OwnDomain(host) == host = SiteHost \/ EndsWith(host, "." \o SiteHost)

\* C7: _is_asset_url is true exactly for the http/https URLs with an
\* allow-listed extension whose host is neither denylisted nor in the
\* mirrored site's own domain; a host that only ends with the site's host
\* name is not in that domain.
C7_Classification ==
    pc = "classified" =>
        \A i \in DOMAIN arg :
            result[i] = (/\ urlparse(arg[i]).scheme \in {"http", "https"}
                         /\ Lower(PathSuffix(urlparse(arg[i]).path)) \in ASSET_EXTENSIONS
                         /\ hostname(urlparse(arg[i])) \notin SKIP_HOSTS
                         /\ ~OwnDomain(hostname(urlparse(arg[i]))))

\* a foreign host whose name ends with the site's is taken for the site
C7_ForeignSuffix ==
    /\ pc = "classified"
    /\ arg = <<"https://notvidea-saversion.webflow.io/i.png">>
    /\ result = <<FALSE>>

\* the invocations that are to end with exit code 2
ArgumentMissing == argc < 2
NoSite == root # "dir" \/ HtmlPaths(fs0) = {}

\* the run did nothing to the world
Untouched ==
    /\ fetches = << >>
    /\ fs = fs0
    /\ assets_dir = (\E f \in DOMAIN fs0 : StartsWith(f, "assets/"))

\* C8: main() ends with 2 exactly when the argument is missing or the root
\* is missing, no directory or without HTML, and then has fetched nothing
\* and touched no file or directory; in every other case it ends with 0,
\* whatever downloads have failed.
C8_ExitCodes ==
    pc = "exit" =>
        /\ exit_code = 2 <=> (ArgumentMissing \/ NoSite)
        /\ exit_code = 2 => Untouched
        /\ exit_code # 2 => exit_code = 0

\* <root>/assets is a regular file: the first download's mkdir has raised
\* FileExistsError out of main(), and the process ends with status 1
C8_AssetsIsFile ==
    /\ pc = "exit" /\ exit_code = 1
    /\ argc = 2 /\ root = "dir" /\ HtmlPaths(fs0) # {}
    /\ "assets" \in DOMAIN fs0
    /\ fetches = << >>

\* the plan has a no-op rename, two renames onto one destination, or a
\* destination that exists and is no source of the plan
PlanConflict(m, files) ==
    \/ \E i \in DOMAIN m : m[i][1] = m[i][2]
    \/ \E i, j \in DOMAIN m : i # j /\ m[i][2] = m[j][2]
    \/ \E i \in DOMAIN m :
           /\ PathExists(m[i][2], files)
           /\ \A j \in DOMAIN m : m[j][1] # m[i][2]

\* C9: the Branding Rewriter writes or renames only in apply mode and with
\* a plan free of conflicts; with a conflicting plan it has stopped, with
\* SystemExit, before any write or rename.
C9_MutatesOnlyValidApply ==
    /\ (mutations # << >> \/ fs # fs0) =>
           (apply /\ ~PlanConflict(rename_map, fs0))
    /\ PlanConflict(rename_map, fs0) =>
           (pc = "exit" /\ exit_code = 1 /\ mutations = << >> /\ fs = fs0)

\* apply mode, and the plan renames onto a file that is there
C9_Refused ==
    /\ apply
    /\ pc = "exit" /\ exit_code = 1
    /\ \E i \in DOMAIN rename_map : rename_map[i][2] \in DOMAIN fs0
    /\ fs = fs0

\* the results of the fetch attempts so far
Results == [k \in DOMAIN fetches |-> fetches[k][2]]

\* C10: _download with budget r makes at most r + 1 attempts; the attempt
\* with index i is followed by a sleep of 1 + i exactly when it failed with
\* none of 400, 401, 403, 404 and i < r; it returns true at the first
\* success and false, without a sleep, after a permanent failure or after
\* the failed attempt with index r; the destination is written by the
\* successful attempt only.
C10_RetryBackoff ==
    dl # NoCall =>
        /\ Len(fetches) <= dl.retries + 1
        /\ \A k \in DOMAIN sleeps :
               /\ sleeps[k] = <<dl.url, 1 + (k - 1)>>
               /\ k - 1 < dl.retries
               /\ Results[k] \notin PermanentCodes \cup {200}
        /\ Len(sleeps) = (IF pc = "download" THEN Len(fetches) ELSE Len(fetches) - 1)
        /\ \A k \in 1..(Len(fetches) - 1) : Results[k] # 200
        /\ pc = "sleep" =>
               /\ Results[Len(fetches)] \notin PermanentCodes \cup {200}
               /\ Len(fetches) - 1 < dl.retries
        /\ pc = "direct_ret" =>
               /\ dl.ret <=> Results[Len(fetches)] = 200
               /\ ~dl.ret => \/ Results[Len(fetches)] \in PermanentCodes
                             \/ Len(fetches) = dl.retries + 1
        /\ IF pc = "direct_ret" /\ dl.ret
           THEN fs = (dl.dest :> Body(dl.url)) @@ fs0
           ELSE fs = fs0

\* the default budget is used up: three attempts, sleeps of 1 and 2, false
C10_BudgetSpent ==
    /\ pc = "direct_ret"
    /\ dl.retries = DefaultRetries
    /\ ~dl.ret
    /\ Len(fetches) = 3
    /\ sleeps = <<<<dl.url, 1>>, <<dl.url, 2>>>>
    /\ fs = fs0

\* the run started with nothing in <root>/assets
EmptyAssets == \A f \in DOMAIN fs0 : ~StartsWith(f, "assets/")

\* the file is a text asset, which the run rewrites after the download
TextAsset(filename) == Lower(PathSuffix(filename)) \in {".css", ".js"}

\* C11: at the end of a run started with an empty assets directory, every
\* URL of filename_by_url names a file of assets/ that holds the body
\* fetched from that URL (a stylesheet or script as rewritten from it), and
\* two mapped URLs share a file only when their bodies are the same.
C11_MappedFileHoldsOwnBody ==
    (run = 1 /\ Finished /\ EmptyAssets) =>
        /\ \A k \in DOMAIN filename_by_url :
               LET u    == filename_by_url[k][1]
                   dest == "assets/" \o filename_by_url[k][2]
               IN  /\ dest \in DOMAIN fs
                   /\ ~TextAsset(filename_by_url[k][2]) => fs[dest] = Body(u)
        /\ \A j, k \in DOMAIN filename_by_url :
               filename_by_url[j][2] = filename_by_url[k][2] =>
                   Body(filename_by_url[j][1]) = Body(filename_by_url[k][1])

\* two hosts serve a file of one name: the second URL is mapped, without a
\* fetch, to the file that holds the first URL's body
C11_SharedName ==
    /\ run = 1 /\ Finished /\ EmptyAssets
    /\ fs0["index.html"] = IndexHosts
    /\ fetches = <<<<"https://c/i.png", 200>>>>
    /\ filename_by_url = << <<"https://c/i.png", "i.png">>,
                            <<"https://d/i.png", "i.png">> >>
    /\ fs["assets/i.png"] = Body("https://c/i.png")
    /\ fs["index.html"] = "<img src=\"assets/i.png\"><img src=\"assets/i.png\">"

============================================================================
